---- MODULE Spec2Model ----
(***************************************************************************)
(* RVCI firmware (firmware.ino): the control loop that samples five analog *)
(* sliders, sends them as one text line per iteration, and reports the     *)
(* rising edges of two switches, with blocking delays in between.          *)
(*                                                                         *)
(* Program state is modelled statement by statement (pc names the source   *)
(* line about to run).  A delay(n) is a sequence of Tick-sized steps so    *)
(* that the switch inputs can change while the firmware is blocked.  The   *)
(* serial line and the inputs' past are history variables.                 *)
(***************************************************************************)
EXTENDS Integers, Sequences, FiniteSets, TLC

(* ------------------------------ bounds --------------------------------- *)

\* Granularity of time: a delay elapses in steps of at most Tick units.
Tick == 10
\* Number of level changes the environment makes on the two switch inputs.
MaxFlips == 3
\* The age of an input level is tracked up to HoldCap units.
HoldCap == 60
\* Input changes, over both switches, in the runs checked for progress.
LiveFlips == 2

(* ------------------------- program constants --------------------------- *)

NUM_SLIDERS == 5
switchPin2 == 7
switchPin3 == 6
\* delay(20) after sampling, delay(100) after sending, the two debounce
\* delay(50), and the closing delay(20)
SettleDelay == 20
SendDelay == 100
DebounceDelay2 == 50
DebounceDelay3 == 50
LoopDelay == 20

Channels == 0 .. (NUM_SLIDERS - 1)
analogInputs == [i \in Channels |->
                   CASE i = 0 -> "A1" [] i = 1 -> "A2" [] i = 2 -> "A3"
                     [] i = 3 -> "A4" [] i = 4 -> "A5"]
AnalogPins == {analogInputs[i] : i \in Channels}
SwitchPins == {switchPin2, switchPin3}
Levels == {"LOW", "HIGH"}
Other(level) == IF level = "LOW" THEN "HIGH" ELSE "LOW"

(* ----------------------------- inputs ---------------------------------- *)

\* Values analogRead returns on the 10-bit converter, used by SpecEncode.
AdcSamples == {0, 9, 10, 1023}
AdcAny == [AnalogPins -> AdcSamples]
\* Whole readings of the five pins used by Spec.
AdcScenario(a1, a2, a3, a4, a5) ==
  [p \in AnalogPins |->
     CASE p = "A1" -> a1 [] p = "A2" -> a2 [] p = "A3" -> a3
       [] p = "A4" -> a4 [] p = "A5" -> a5]
AdcScenarios == {AdcScenario(512, 0, 1023, 256, 999),
                 AdcScenario(7, 1000, 99, 100, 0)}

(* --------------------------- text of a line ---------------------------- *)

DigitChars == <<"0", "1", "2", "3", "4", "5", "6", "7", "8", "9">>
DigitChar(d) == DigitChars[d + 1]

\* itoa(value, buf, 10): the digits of a non-negative value, most
\* significant first, produced by repeated division by ten.
RECURSIVE utoa(_)
utoa(n) == IF n < 10 THEN <<DigitChar(n)>>
           ELSE Append(utoa(n \div 10), DigitChar(n % 10))

\* String((int)value): decimal text, a minus sign first when negative.
StringOfInt(v) == IF v < 0 THEN <<"-">> \o utoa(0 - v) ELSE utoa(v)

\* The loop of sendSliderValues from index i on, acc being builtString.
RECURSIVE BuildFrom(_, _, _)
BuildFrom(vals, i, acc) ==
  IF i < NUM_SLIDERS
  THEN BuildFrom(vals, i + 1,
                 (acc \o StringOfInt(vals[i]))
                   \o (IF i < NUM_SLIDERS - 1 THEN <<"|">> ELSE <<>>))
  ELSE acc

\* Variant: a delimiter is added after every field, the last included.
RECURSIVE BuildDelimAll(_, _, _)
BuildDelimAll(vals, i, acc) ==
  IF i < NUM_SLIDERS
  THEN BuildDelimAll(vals, i + 1, (acc \o StringOfInt(vals[i])) \o <<"|">>)
  ELSE acc

builtStringDelimAll(vals) == BuildDelimAll(vals, 0, <<>>)

builtString(vals) == BuildFrom(vals, 0, <<>>)

\* Variant: the line is ended by a newline alone.
printlnLF(text) == text \o <<"\n">>

\* Serial.println(text): the text followed by carriage return and newline.
println(text) == text \o <<"\r", "\n">>

Works2 == <<"W", "O", "R", "K", "S", " ", "2">>
Works1 == <<"W", "O", "R", "K", "S", " ", "1">>

(* ------------------------------ state ---------------------------------- *)

VARIABLES
  pc,                  \* source line about to run ("setup", "L36" .. "L59")
  wait,                \* time left of the delay(n) in progress, else 0
  analogSliderValues,  \* int analogSliderValues[NUM_SLIDERS]
  prevSwitchState2,    \* int prevSwitchState2
  prevSwitchState3,    \* int prevSwitchState3
  switchState2,        \* local of loop(), line 40
  switchState3,        \* local of loop(), line 41
  pinModes,            \* pinMode() configuration of each pin
  serialOn,            \* Serial.begin has run
  pin,                 \* level present on each switch input
  analogLevel,         \* what the analog pins presented at the last sampling
  sampleChange,        \* the last sampling against the array it overwrote:
                       \* "none" yet, "first", "same" or "changed"
  wire,                \* lines written to Serial during this loop() iteration
  events,              \* per switch pin: event lines written since power-up
  lowSince,            \* per switch pin: a poll read LOW since its last event
  flips,               \* per switch pin: level changes of the input so far
  age,                 \* per switch pin: time the present level has lasted
  short,               \* per switch pin: some level lasted <= debounce time
  polled,              \* per switch pin: the present level was read by a poll
  missed,              \* per switch pin: some level ended before being polled
  blankFlips,          \* changes of the debounced input during this delay(50)
  sinceFrame,          \* delay time since the last frame line, -1 if none
  stalls,              \* debounce delays entered since the last frame line
  cycleTime,           \* delay time spent in this loop() iteration
  sentFrame,           \* the last frame line, <<>> once the array differs
  afterFrame           \* event lines written since the last frame line

vars == <<pc, wait, analogSliderValues, prevSwitchState2, prevSwitchState3,
          switchState2, switchState3, pinModes, serialOn, pin, analogLevel,
          sampleChange, wire, events, lowSince, flips, age, short, polled,
          missed, blankFlips, sinceFrame, stalls, cycleTime, sentFrame,
          afterFrame>>

progVars == <<analogSliderValues, prevSwitchState2, prevSwitchState3,
              switchState2, switchState3, pinModes, serialOn>>

NoFrame == 0 - 1

\* Variant: the delay after a change of switch 3 lasts 100 units.
DelayOfLongDebounce3(line) ==
  CASE line = "L37" -> SettleDelay
    [] line = "L39" -> SendDelay
    [] line = "L48" -> DebounceDelay2
    [] line = "L57" -> DebounceDelay3 + DebounceDelay2
    [] line = "L59" -> LoopDelay
    [] OTHER -> 0

\* Variant: the delay after sending lasts 80 units.
DelayOfShortSend(line) ==
  CASE line = "L37" -> SettleDelay
    [] line = "L39" -> SendDelay - LoopDelay
    [] line = "L48" -> DebounceDelay2
    [] line = "L57" -> DebounceDelay3
    [] line = "L59" -> LoopDelay
    [] OTHER -> 0

DelayOf(line) ==
  CASE line = "L37" -> SettleDelay
    [] line = "L39" -> SendDelay
    [] line = "L48" -> DebounceDelay2
    [] line = "L57" -> DebounceDelay3
    [] line = "L59" -> LoopDelay
    [] OTHER -> 0

\* Variant: loop() polls and handles the switches before it sends the
\* frame: sample, delay, poll, send, delay, delay.
GotoPollFirst(line) ==
  LET to == CASE line = "L38" -> "L40"
              [] line = "L59" -> "L38"
              [] line = "L40" -> "L59"
              [] OTHER -> line
  IN  pc' = to /\ wait' = DelayOf(to)

\* Control reaches `line`; a delay statement starts with its full duration.
Goto(line) == pc' = line /\ wait' = DelayOf(line)

Min(a, b) == IF a < b THEN a ELSE b

(* ------------------------------ Init ----------------------------------- *)

\* Globals as initialised at lines 21-23; the inputs are at any level.
Init ==
  /\ pc = "setup"
  /\ wait = 0
  /\ analogSliderValues = [i \in Channels |-> 0]
  /\ prevSwitchState2 = "LOW"
  /\ prevSwitchState3 = "LOW"
  /\ switchState2 = "LOW"
  /\ switchState3 = "LOW"
  /\ pinModes = [switch |-> [p \in SwitchPins |-> "UNSET"],
                 analog |-> [p \in AnalogPins |-> "UNSET"]]
  /\ serialOn = FALSE
  /\ pin \in [SwitchPins -> Levels]
  /\ analogLevel = [p \in AnalogPins |-> 0]
  /\ sampleChange = "none"
  /\ wire = <<>>
  /\ events = [p \in SwitchPins |-> 0]
  /\ lowSince = [p \in SwitchPins |-> FALSE]
  /\ flips = [p \in SwitchPins |-> 0]
  /\ age = [p \in SwitchPins |-> 0]
  /\ short = [p \in SwitchPins |-> FALSE]
  /\ polled = [p \in SwitchPins |-> FALSE]
  /\ missed = [p \in SwitchPins |-> FALSE]
  /\ blankFlips = 0
  /\ sinceFrame = NoFrame
  /\ stalls = 0
  /\ cycleTime = 0
  /\ sentFrame = <<>>
  /\ afterFrame = <<>>

(* ----------------------------- program --------------------------------- *)

setup ==
  /\ pc = "setup"
  /\ pinModes' = [switch |-> [p \in SwitchPins |-> "INPUT_PULLUP"],
                  analog |-> [p \in AnalogPins |-> "INPUT"]]
  /\ serialOn' = TRUE
  /\ Goto("L36")
  /\ UNCHANGED <<analogSliderValues, prevSwitchState2, prevSwitchState3,
                 switchState2, switchState3, pin, analogLevel, sampleChange,
                 wire, events,
                 lowSince, flips, age, short, polled, missed, blankFlips,
                 sinceFrame, stalls>>
  /\ UNCHANGED <<cycleTime, sentFrame, afterFrame>>

\* Variant: the pins are read in the opposite order to the channels.
updateSliderValuesReversed(Readings) ==
  /\ pc = "L36"
  /\ \E lv \in Readings :
       /\ analogLevel' = lv
       /\ analogSliderValues' =
            [i \in Channels |-> lv[analogInputs[NUM_SLIDERS - 1 - i]]]
  /\ sampleChange' = IF sampleChange = "none" THEN "first"
                     ELSE IF analogSliderValues' = analogSliderValues
                          THEN "same" ELSE "changed"
  /\ wire' = <<>>
  /\ Goto("L37")
  /\ UNCHANGED <<prevSwitchState2, prevSwitchState3, switchState2,
                 switchState3, pinModes, serialOn, pin, events, lowSince,
                 flips, age, short, polled, missed, blankFlips, sinceFrame,
                 stalls>>
  /\ cycleTime' = 0
  /\ sentFrame' = IF analogSliderValues' = analogSliderValues
                  THEN sentFrame ELSE <<>>
  /\ UNCHANGED afterFrame

\* Line 36: every channel is overwritten by analogRead of its pin.  A new
\* loop() iteration starts here, so the iteration's output starts empty.
updateSliderValues(Readings) ==
  /\ pc = "L36"
  /\ \E lv \in Readings :
       /\ analogLevel' = lv
       /\ analogSliderValues' = [i \in Channels |-> lv[analogInputs[i]]]
  /\ sampleChange' = IF sampleChange = "none" THEN "first"
                     ELSE IF analogSliderValues' = analogSliderValues
                          THEN "same" ELSE "changed"
  /\ wire' = <<>>
  /\ Goto("L37")
  /\ UNCHANGED <<prevSwitchState2, prevSwitchState3, switchState2,
                 switchState3, pinModes, serialOn, pin, events, lowSince,
                 flips, age, short, polled, missed, blankFlips, sinceFrame,
                 stalls>>
  /\ cycleTime' = 0
  /\ sentFrame' = IF analogSliderValues' = analogSliderValues
                  THEN sentFrame ELSE <<>>
  /\ UNCHANGED afterFrame

\* Variant: the frame is written only when the sampling changed the array.
sendSliderValuesOnChange ==
  /\ pc = "L38"
  /\ IF sampleChange = "same"
     THEN UNCHANGED <<wire, sinceFrame, stalls, sentFrame, afterFrame>>
     ELSE /\ wire' = Append(wire, println(builtString(analogSliderValues)))
          /\ sinceFrame' = 0
          /\ stalls' = 0
          /\ sentFrame' = println(builtString(analogSliderValues))
          /\ afterFrame' = <<>>
  /\ Goto("L39")
  /\ UNCHANGED <<progVars, pin, analogLevel, sampleChange, events, lowSince,
                 flips, age, short, polled, missed, blankFlips>>
  /\ UNCHANGED cycleTime

\* Variant: sending consumes the values: the array is zeroed once the line
\* is written.
sendSliderValuesClearing ==
  /\ pc = "L38"
  /\ wire' = Append(wire, println(builtString(analogSliderValues)))
  /\ analogSliderValues' = [i \in Channels |-> 0]
  /\ sinceFrame' = 0
  /\ stalls' = 0
  /\ sentFrame' = println(builtString(analogSliderValues))
  /\ afterFrame' = <<>>
  /\ Goto("L39")
  /\ UNCHANGED <<prevSwitchState2, prevSwitchState3, switchState2,
                 switchState3, pinModes, serialOn, pin, analogLevel,
                 sampleChange, events, lowSince, flips, age, short, polled,
                 missed, blankFlips, cycleTime>>

\* Line 38: the frame line is built and written, whatever the values are.
sendSliderValues ==
  /\ pc = "L38"
  /\ wire' = Append(wire, println(builtString(analogSliderValues)))
  /\ sinceFrame' = 0
  /\ stalls' = 0
  /\ sentFrame' = println(builtString(analogSliderValues))
  /\ afterFrame' = <<>>
  /\ Goto("L39")
  /\ UNCHANGED <<progVars, pin, analogLevel, sampleChange, events, lowSince,
                 flips, age,
                 short, polled, missed, blankFlips>>
  /\ UNCHANGED cycleTime

\* Line 40
digitalRead2 ==
  /\ pc = "L40"
  /\ switchState2' = pin[switchPin2]
  /\ polled' = [polled EXCEPT ![switchPin2] = TRUE]
  /\ lowSince' = [lowSince EXCEPT
                    ![switchPin2] = @ \/ pin[switchPin2] = "LOW"]
  /\ Goto("L41")
  /\ UNCHANGED <<analogSliderValues, prevSwitchState2, prevSwitchState3,
                 switchState3, pinModes, serialOn, pin, analogLevel,
                 sampleChange, wire,
                 events, flips, age, short, missed, blankFlips, sinceFrame,
                 stalls>>
  /\ UNCHANGED <<cycleTime, sentFrame, afterFrame>>

\* Line 41
digitalRead3 ==
  /\ pc = "L41"
  /\ switchState3' = pin[switchPin3]
  /\ polled' = [polled EXCEPT ![switchPin3] = TRUE]
  /\ lowSince' = [lowSince EXCEPT
                    ![switchPin3] = @ \/ pin[switchPin3] = "LOW"]
  /\ Goto("L43")
  /\ UNCHANGED <<analogSliderValues, prevSwitchState2, prevSwitchState3,
                 switchState2, pinModes, serialOn, pin, analogLevel,
                 sampleChange, wire,
                 events, flips, age, short, missed, blankFlips, sinceFrame,
                 stalls>>
  /\ UNCHANGED <<cycleTime, sentFrame, afterFrame>>

\* Variant: level-triggered, an event line at every poll that reads HIGH.
checkSwitch2Level ==
  /\ pc = "L43"
  /\ IF switchState2 = "HIGH"
     THEN /\ wire' = Append(wire, println(Works2))
          /\ afterFrame' = Append(afterFrame, println(Works2))
          /\ events' = [events EXCEPT ![switchPin2] = @ + 1]
          /\ lowSince' = [lowSince EXCEPT ![switchPin2] = FALSE]
     ELSE UNCHANGED <<afterFrame, wire, events, lowSince>>
  /\ IF switchState2 # prevSwitchState2
     THEN /\ prevSwitchState2' = switchState2
          /\ stalls' = stalls + 1
          /\ Goto("L48")
     ELSE /\ Goto("L52")
          /\ UNCHANGED <<prevSwitchState2, stalls>>
  /\ blankFlips' = 0
  /\ UNCHANGED <<analogSliderValues, prevSwitchState3, switchState2,
                 switchState3, pinModes, serialOn, pin, analogLevel,
                 sampleChange, flips, age, short, polled, missed, sinceFrame>>
  /\ UNCHANGED <<cycleTime, sentFrame>>

\* Variant: the stored state follows the input only when an event is sent.
checkSwitch2KeepOnLow ==
  /\ pc = "L43"
  /\ IF switchState2 # prevSwitchState2
     THEN /\ IF switchState2 = "HIGH"
             THEN /\ wire' = Append(wire, println(Works2))
                  /\ afterFrame' = Append(afterFrame, println(Works2))
                  /\ events' = [events EXCEPT ![switchPin2] = @ + 1]
                  /\ lowSince' = [lowSince EXCEPT ![switchPin2] = FALSE]
                  /\ prevSwitchState2' = switchState2
             ELSE UNCHANGED <<afterFrame, wire, events, lowSince,
                              prevSwitchState2>>
          /\ stalls' = stalls + 1
          /\ Goto("L48")
     ELSE /\ Goto("L52")
          /\ UNCHANGED <<afterFrame, wire, events, lowSince,
                       prevSwitchState2, stalls>>
  /\ blankFlips' = 0
  /\ UNCHANGED <<analogSliderValues, prevSwitchState3, switchState2,
                 switchState3, pinModes, serialOn, pin, analogLevel,
                 sampleChange, flips, age, short, polled, missed, sinceFrame>>
  /\ UNCHANGED <<cycleTime, sentFrame>>

\* Variant: the debounce delay follows only a change that sent an event.
checkSwitch2NoDelayOnLow ==
  /\ pc = "L43"
  /\ IF switchState2 # prevSwitchState2
     THEN /\ IF switchState2 = "HIGH"
             THEN /\ wire' = Append(wire, println(Works2))
                  /\ afterFrame' = Append(afterFrame, println(Works2))
                  /\ events' = [events EXCEPT ![switchPin2] = @ + 1]
                  /\ lowSince' = [lowSince EXCEPT ![switchPin2] = FALSE]
                  /\ stalls' = stalls + 1
                  /\ Goto("L48")
             ELSE /\ Goto("L52")
                  /\ UNCHANGED <<afterFrame, wire, events, lowSince, stalls>>
          /\ prevSwitchState2' = switchState2
     ELSE /\ Goto("L52")
          /\ UNCHANGED <<afterFrame, wire, events, lowSince,
                         prevSwitchState2, stalls>>
  /\ blankFlips' = 0
  /\ UNCHANGED <<analogSliderValues, prevSwitchState3, switchState2,
                 switchState3, pinModes, serialOn, pin, analogLevel,
                 sampleChange, flips, age, short, polled, missed, sinceFrame>>
  /\ UNCHANGED <<cycleTime, sentFrame>>

\* Variant: the delay(50) of switch 2 stands after its if, not inside it.
checkSwitch2AlwaysDelay ==
  /\ pc = "L43"
  /\ IF switchState2 # prevSwitchState2
     THEN /\ IF switchState2 = "HIGH"
             THEN /\ wire' = Append(wire, println(Works2))
                  /\ afterFrame' = Append(afterFrame, println(Works2))
                  /\ events' = [events EXCEPT ![switchPin2] = @ + 1]
                  /\ lowSince' = [lowSince EXCEPT ![switchPin2] = FALSE]
             ELSE UNCHANGED <<afterFrame, wire, events, lowSince>>
          /\ prevSwitchState2' = switchState2
          /\ stalls' = stalls + 1
     ELSE UNCHANGED <<afterFrame, wire, events, lowSince,
                      prevSwitchState2, stalls>>
  /\ Goto("L48")
  /\ blankFlips' = 0
  /\ UNCHANGED <<analogSliderValues, prevSwitchState3, switchState2,
                 switchState3, pinModes, serialOn, pin, analogLevel,
                 sampleChange, flips, age, short, polled, missed, sinceFrame>>
  /\ UNCHANGED <<cycleTime, sentFrame>>

\* Variant: the handling of switch 2 waits for the input to be released
\* (HIGH) before it looks at the level read.
checkSwitch2WaitRelease ==
  /\ pc = "L43"
  /\ IF pin[switchPin2] = "LOW"
     THEN UNCHANGED vars
     ELSE /\ IF switchState2 # prevSwitchState2
             THEN /\ IF switchState2 = "HIGH"
                     THEN /\ wire' = Append(wire, println(Works2))
                          /\ afterFrame' = Append(afterFrame, println(Works2))
                          /\ events' = [events EXCEPT ![switchPin2] = @ + 1]
                          /\ lowSince' = [lowSince EXCEPT
                                            ![switchPin2] = FALSE]
                     ELSE UNCHANGED <<afterFrame, wire, events, lowSince>>
                  /\ prevSwitchState2' = switchState2
                  /\ stalls' = stalls + 1
                  /\ Goto("L48")
             ELSE /\ Goto("L52")
                  /\ UNCHANGED <<afterFrame, wire, events, lowSince,
                                 prevSwitchState2, stalls>>
          /\ blankFlips' = 0
          /\ UNCHANGED <<analogSliderValues, prevSwitchState3, switchState2,
                         switchState3, pinModes, serialOn, pin, analogLevel,
                         sampleChange, flips, age, short, polled, missed,
                         sinceFrame, cycleTime, sentFrame>>

\* Lines 43-49: switch 2 changed: event line on HIGH, state stored, delay(50).
checkSwitch2 ==
  /\ pc = "L43"
  /\ IF switchState2 # prevSwitchState2
     THEN /\ IF switchState2 = "HIGH"
             THEN /\ wire' = Append(wire, println(Works2))
                  /\ afterFrame' = Append(afterFrame, println(Works2))
                  /\ events' = [events EXCEPT ![switchPin2] = @ + 1]
                  /\ lowSince' = [lowSince EXCEPT ![switchPin2] = FALSE]
             ELSE UNCHANGED <<afterFrame, wire, events, lowSince>>
          /\ prevSwitchState2' = switchState2
          /\ stalls' = stalls + 1
          /\ Goto("L48")
     ELSE /\ Goto("L52")
          /\ UNCHANGED <<afterFrame, wire, events, lowSince,
                       prevSwitchState2, stalls>>
  /\ blankFlips' = 0
  /\ UNCHANGED <<analogSliderValues, prevSwitchState3, switchState2,
                 switchState3, pinModes, serialOn, pin, analogLevel,
                 sampleChange, flips,
                 age, short, polled, missed, sinceFrame>>
  /\ UNCHANGED <<cycleTime, sentFrame>>

\* Variant: switch 3 is labelled by its slot number.
Works3 == <<"W", "O", "R", "K", "S", " ", "3">>

checkSwitch3Label ==
  /\ pc = "L52"
  /\ IF switchState3 # prevSwitchState3
     THEN /\ IF switchState3 = "HIGH"
             THEN /\ wire' = Append(wire, println(Works3))
                  /\ afterFrame' = Append(afterFrame, println(Works3))
                  /\ events' = [events EXCEPT ![switchPin3] = @ + 1]
                  /\ lowSince' = [lowSince EXCEPT ![switchPin3] = FALSE]
             ELSE UNCHANGED <<afterFrame, wire, events, lowSince>>
          /\ prevSwitchState3' = switchState3
          /\ stalls' = stalls + 1
          /\ Goto("L57")
     ELSE /\ Goto("L59")
          /\ UNCHANGED <<afterFrame, wire, events, lowSince,
                       prevSwitchState3, stalls>>
  /\ blankFlips' = 0
  /\ UNCHANGED <<analogSliderValues, prevSwitchState2, switchState2,
                 switchState3, pinModes, serialOn, pin, analogLevel,
                 sampleChange, flips, age, short, polled, missed, sinceFrame>>
  /\ UNCHANGED <<cycleTime, sentFrame>>

\* Lines 52-58: the same for switch 3, whose event line reads "WORKS 1".
checkSwitch3 ==
  /\ pc = "L52"
  /\ IF switchState3 # prevSwitchState3
     THEN /\ IF switchState3 = "HIGH"
             THEN /\ wire' = Append(wire, println(Works1))
                  /\ afterFrame' = Append(afterFrame, println(Works1))
                  /\ events' = [events EXCEPT ![switchPin3] = @ + 1]
                  /\ lowSince' = [lowSince EXCEPT ![switchPin3] = FALSE]
             ELSE UNCHANGED <<afterFrame, wire, events, lowSince>>
          /\ prevSwitchState3' = switchState3
          /\ stalls' = stalls + 1
          /\ Goto("L57")
     ELSE /\ Goto("L59")
          /\ UNCHANGED <<afterFrame, wire, events, lowSince,
                       prevSwitchState3, stalls>>
  /\ blankFlips' = 0
  /\ UNCHANGED <<analogSliderValues, prevSwitchState2, switchState2,
                 switchState3, pinModes, serialOn, pin, analogLevel,
                 sampleChange, flips,
                 age, short, polled, missed, sinceFrame>>
  /\ UNCHANGED <<cycleTime, sentFrame>>

\* delay(n) at `line`: time passes, nothing else happens; when the time is
\* up control moves to `next`.
delay(line, next) ==
  /\ pc = line
  /\ wait > 0
  /\ LET dt == Min(wait, Tick) IN
       /\ age' = [p \in SwitchPins |-> Min(age[p] + dt, HoldCap)]
       /\ sinceFrame' = IF sinceFrame = NoFrame THEN NoFrame
                        ELSE sinceFrame + dt
       /\ cycleTime' = cycleTime + dt
       /\ IF wait - dt = 0
          THEN Goto(next) /\ blankFlips' = 0
          ELSE pc' = pc /\ wait' = wait - dt /\ UNCHANGED blankFlips
  /\ UNCHANGED <<progVars, pin, analogLevel, sampleChange, wire, events,
                 lowSince, flips,
                 short, polled, missed, stalls>>
  /\ UNCHANGED <<sentFrame, afterFrame>>

\* Variant: the debounce wait keeps polling switch 2 while it elapses.
delay48Polling ==
  /\ pc = "L48"
  /\ wait > 0
  /\ LET dt == Min(wait, Tick) IN
       /\ age' = [p \in SwitchPins |-> Min(age[p] + dt, HoldCap)]
       /\ sinceFrame' = IF sinceFrame = NoFrame THEN NoFrame
                        ELSE sinceFrame + dt
       /\ cycleTime' = cycleTime + dt
       /\ IF wait - dt = 0
          THEN Goto("L52") /\ blankFlips' = 0
          ELSE pc' = pc /\ wait' = wait - dt /\ UNCHANGED blankFlips
  /\ IF pin[switchPin2] # prevSwitchState2
     THEN /\ prevSwitchState2' = pin[switchPin2]
          /\ IF pin[switchPin2] = "HIGH"
             THEN /\ wire' = Append(wire, println(Works2))
                  /\ afterFrame' = Append(afterFrame, println(Works2))
                  /\ events' = [events EXCEPT ![switchPin2] = @ + 1]
             ELSE UNCHANGED <<afterFrame, wire, events>>
     ELSE UNCHANGED <<prevSwitchState2, afterFrame, wire, events>>
  /\ UNCHANGED <<analogSliderValues, prevSwitchState3, switchState2,
                 switchState3, pinModes, serialOn, pin, analogLevel,
                 sampleChange, lowSince, flips, short, polled, missed, stalls>>
  /\ UNCHANGED sentFrame

delay37 == delay("L37", "L38")
delay39 == delay("L39", "L40")
delay48 == delay("L48", "L52")
\* Variant: the debounce wait of switch 3 reads and handles the pin while
\* it elapses.
delay57Polling ==
  /\ pc = "L57"
  /\ wait > 0
  /\ LET dt == Min(wait, Tick) IN
       /\ age' = [p \in SwitchPins |-> Min(age[p] + dt, HoldCap)]
       /\ sinceFrame' = IF sinceFrame = NoFrame THEN NoFrame
                        ELSE sinceFrame + dt
       /\ cycleTime' = cycleTime + dt
       /\ IF wait - dt = 0
          THEN Goto("L59") /\ blankFlips' = 0
          ELSE pc' = pc /\ wait' = wait - dt /\ UNCHANGED blankFlips
  /\ switchState3' = pin[switchPin3]
  /\ polled' = [polled EXCEPT ![switchPin3] = TRUE]
  /\ IF pin[switchPin3] # prevSwitchState3
     THEN /\ prevSwitchState3' = pin[switchPin3]
          /\ IF pin[switchPin3] = "HIGH"
             THEN /\ wire' = Append(wire, println(Works1))
                  /\ afterFrame' = Append(afterFrame, println(Works1))
                  /\ events' = [events EXCEPT ![switchPin3] = @ + 1]
             ELSE UNCHANGED <<afterFrame, wire, events>>
     ELSE UNCHANGED <<prevSwitchState3, afterFrame, wire, events>>
  /\ UNCHANGED <<analogSliderValues, prevSwitchState2, switchState2,
                 pinModes, serialOn, pin, analogLevel, sampleChange,
                 lowSince, flips, short, missed, stalls, sentFrame>>

delay57 == delay("L57", "L59")
delay59 == delay("L59", "L36")

(* --------------------------- environment ------------------------------- *)

\* The switch input on pin p changes level.
FlipPin(p) ==
  /\ flips[switchPin2] + flips[switchPin3] < MaxFlips
  /\ pin' = [pin EXCEPT ![p] = Other(@)]
  /\ flips' = [flips EXCEPT ![p] = @ + 1]
  /\ short' = [short EXCEPT ![p] = @ \/ age[p] <= DebounceDelay2]
  /\ missed' = [missed EXCEPT ![p] = @ \/ ~polled[p]]
  /\ polled' = [polled EXCEPT ![p] = FALSE]
  /\ age' = [age EXCEPT ![p] = 0]
  /\ blankFlips' = IF \/ (pc = "L48" /\ p = switchPin2)
                      \/ (pc = "L57" /\ p = switchPin3)
                   THEN blankFlips + 1 ELSE blankFlips
  /\ UNCHANGED <<pc, wait, progVars, analogLevel, sampleChange, wire, events,
                 lowSince,
                 sinceFrame, stalls>>
  /\ UNCHANGED <<cycleTime, sentFrame, afterFrame>>

Flip2 == FlipPin(switchPin2)
Flip3 == FlipPin(switchPin3)

(* -------------------------- specifications ----------------------------- *)

Program(Readings) ==
  \/ setup
  \/ updateSliderValues(Readings)
  \/ delay37
  \/ sendSliderValues
  \/ delay39
  \/ digitalRead2
  \/ digitalRead3
  \/ checkSwitch2
  \/ delay48
  \/ checkSwitch3
  \/ delay57
  \/ delay59

Next == Program(AdcScenarios) \/ Flip2 \/ Flip3

Spec == Init /\ [][Next]_vars

\* The loop with the switch inputs at rest and every channel reading any
\* of the sample values: the specification for the frame encoder.
NextEncode == Program(AdcAny)

SpecEncode == Init /\ [][NextEncode]_vars

(* ----------------------- reading what was sent ------------------------- *)

EndOfLine == {"\r", "\n"}
DigitSet == {DigitChars[d + 1] : d \in 0 .. 9}
IsDigit(c) == c \in DigitSet
DigitValue(c) == CHOOSE d \in 0 .. 9 : DigitChars[d + 1] = c

\* The line without the end-of-line characters that close it.
RECURSIVE StripEOL(_)
StripEOL(line) ==
  IF line # <<>> /\ line[Len(line)] \in EndOfLine
  THEN StripEOL(SubSeq(line, 1, Len(line) - 1))
  ELSE line

\* The fields of text between occurrences of the character d.
RECURSIVE SplitFrom(_, _, _, _, _)
SplitFrom(text, d, i, cur, out) ==
  IF i > Len(text) THEN Append(out, cur)
  ELSE IF text[i] = d
       THEN SplitFrom(text, d, i + 1, <<>>, Append(out, cur))
       ELSE SplitFrom(text, d, i + 1, Append(cur, text[i]), out)

Fields(line) == SplitFrom(StripEOL(line), "|", 1, <<>>, <<>>)

CountChar(line, c) == Cardinality({i \in 1 .. Len(line) : line[i] = c})

\* A canonical decimal numeral: digits only, no leading zero.
IsNumeral(f) ==
  /\ Len(f) >= 1
  /\ \A i \in 1 .. Len(f) : IsDigit(f[i])
  /\ (Len(f) > 1 => f[1] # "0")

\* The number a numeral denotes, read left to right.
RECURSIVE ValueFrom(_, _, _)
ValueFrom(f, i, acc) ==
  IF i > Len(f) THEN acc ELSE ValueFrom(f, i + 1, 10 * acc + DigitValue(f[i]))

NumeralValue(f) == ValueFrom(f, 1, 0)

\* A reading frame line: numerals separated by "|" and then the line end.
\* n is the length of the text before the end-of-line characters.
IsFrameText(line, n) ==
  /\ n >= 1
  /\ n < Len(line)
  /\ \A i \in (n + 1) .. Len(line) : line[i] \in EndOfLine
  /\ \A i \in 1 .. n :
       \/ /\ line[i] = "|"
          /\ i > 1 /\ i < n
          /\ line[i - 1] # "|"
       \/ /\ line[i] \in DigitSet
          /\ ( (line[i] = "0" /\ (i = 1 \/ line[i - 1] = "|"))
                 => (i = n \/ line[i + 1] = "|") )

IsFrameLine(line) ==
  \E n \in 1 .. Len(line) :
    /\ line[n] \notin EndOfLine
    /\ IsFrameText(line, n)

FrameCount(w) == Cardinality({i \in 1 .. Len(w) : IsFrameLine(w[i])})

BeforeSend == {"L37", "L38"}
AfterSend == {"L39", "L40", "L41", "L43", "L48", "L52", "L57", "L59"}

(* ------------------------------ claims --------------------------------- *)

\* C1: every iteration of loop() transmits exactly one reading frame line:
\* none has been written before line 38 runs, and from line 38 on to the
\* end of the iteration exactly one has, whatever was sampled and whatever
\* the switches did.
C1_OneFramePerIteration ==
  /\ pc \in BeforeSend => FrameCount(wire) = 0
  /\ pc \in AfterSend => FrameCount(wire) = 1

\* C1 witness: an iteration whose sampling left the array unchanged and in
\* which both switches changed has reached its last statement.
C1_Witness ==
  /\ pc = "L59"
  /\ sampleChange = "same"
  /\ stalls = 2
  /\ FrameCount(wire) = 1

\* C2: for every content of the channel array the frame line that
\* sendSliderValues has just written has exactly
\* NUM_SLIDERS fields separated by exactly NUM_SLIDERS - 1 "|" characters,
\* none leading or trailing, and field i is the canonical decimal numeral
\* of channel i's stored magnitude.
C2_FrameFormat ==
  (pc = "L39" /\ wait = SendDelay) =>
    /\ Len(wire) = 1
    /\ LET f == Fields(wire[1]) IN
         /\ CountChar(wire[1], "|") = NUM_SLIDERS - 1
         /\ Len(f) = NUM_SLIDERS
         /\ \A i \in Channels :
              /\ IsNumeral(f[i + 1])
              /\ NumeralValue(f[i + 1]) = analogSliderValues[i]

\* C2 witness: a frame was sent for an array holding both the smallest and
\* the largest magnitude, and a two-digit one.
C2_Witness ==
  /\ pc = "L39"
  /\ Len(wire) = 1
  /\ analogSliderValues[0] = 0
  /\ analogSliderValues[2] = 1023
  /\ analogSliderValues[4] = 10

C3Values == [i \in Channels |->
               CASE i = 0 -> 512 [] i = 1 -> 0 [] i = 2 -> 1023
                 [] i = 3 -> 256 [] i = 4 -> 999]
C3Text == <<"5", "1", "2", "|", "0", "|", "1", "0", "2", "3", "|",
            "2", "5", "6", "|", "9", "9", "9">>

InitLevel(p) == IF flips[p] % 2 = 0 THEN pin[p] ELSE Other(pin[p])
OtherPin(p) == IF p = switchPin2 THEN switchPin3 ELSE switchPin2
\* The level the last poll of pin p read.
LevelRead(p) == IF p = switchPin2 THEN switchState2 ELSE switchState3
StableState(p) ==
  IF p = switchPin2 THEN prevSwitchState2 ELSE prevSwitchState3

Literal2 == <<"W", "O", "R", "K", "S", " ", "2">>
Literal1 == <<"W", "O", "R", "K", "S", " ", "1">>
EventLiteral(p) == IF p = switchPin2 THEN Literal2 ELSE Literal1
IsEventLine(line, p) ==
  /\ line # <<>>
  /\ line[Len(line)] \in EndOfLine
  /\ StripEOL(line) = EventLiteral(p)
EventCount(w, p) == Cardinality({i \in 1 .. Len(w) : IsEventLine(w[i], p)})
\* This step writes one more line, an event line of the switch on pin p.
EventWritten(p) ==
  /\ Len(wire') = Len(wire) + 1
  /\ IsEventLine(wire'[Len(wire')], p)

\* C4 as stated: both inputs HIGH at power-up, one goes LOW, is polled LOW,
\* and returns to HIGH more than the blanking time later, the other never
\* moves; once the return has been polled and handled the stream holds one
\* event line of the switch that moved and none of the other, and the
\* iteration has its frame line.
C4_OneEventForMovedSwitch ==
  \A p \in SwitchPins :
    ( /\ InitLevel(p) = "HIGH" /\ InitLevel(OtherPin(p)) = "HIGH"
      /\ flips[p] = 2 /\ flips[OtherPin(p)] = 0
      /\ ~short[p] /\ ~missed[p] /\ polled[p]
      /\ pc = "L59" )
    => /\ events[p] = 1
       /\ events[OtherPin(p)] = 0
       /\ FrameCount(wire) = 1

\* C5: an event line of a switch is written only at a poll that read HIGH,
\* and only if it is the first of that switch or a poll of that switch has
\* read LOW since its previous event line.
C5_RisingEdgeOnly ==
  [][\A p \in SwitchPins :
       EventWritten(p) =>
         /\ LevelRead(p) = "HIGH"
         /\ (events[p] = 0 \/ lowSince[p])]_vars

\* C5 witness: switch 2 has had two event lines and three input changes,
\* the last one a fall to LOW that was polled without an event.
C5_Witness ==
  /\ pc = "L59"
  /\ events[switchPin2] = 2
  /\ flips[switchPin2] = 3
  /\ pin[switchPin2] = "LOW"
  /\ prevSwitchState2 = "LOW"

\* C6 (amended): an input that follows LOW, HIGH, LOW, HIGH with every
\* level lasting until a poll has read it has caused exactly two event
\* lines once the last level has been polled and handled.
C6_TwoEventsWhenPolled ==
  \A p \in SwitchPins :
    ( /\ InitLevel(p) = "LOW" /\ flips[p] = 3
      /\ ~missed[p] /\ polled[p]
      /\ pc = "L59" )
    => events[p] = 2

\* C6 as stated: the same with every level lasting longer than the
\* 50-unit blanking time.
C6_TwoEventsWhenHeld50 ==
  \A p \in SwitchPins :
    ( /\ InitLevel(p) = "LOW" /\ flips[p] = 3
      /\ ~short[p] /\ age[p] > DebounceDelay2 /\ polled[p]
      /\ pc = "L59" )
    => events[p] = 2

\* C6 witness: switch 2 went LOW, HIGH, LOW, HIGH, each level polled.
C6_Witness ==
  /\ pc = "L59"
  /\ InitLevel(switchPin2) = "LOW"
  /\ flips[switchPin2] = 3
  /\ ~missed[switchPin2]
  /\ polled[switchPin2]
  /\ events[switchPin2] = 2

\* C7: while a debounce delay is in progress nothing is written and the
\* stored state does not move, whatever the input does, and the iteration
\* holds at most one event line of the debounced switch.
C7_BlankingSilent ==
  [][/\ pc = "L48" => /\ wire' = wire
                      /\ prevSwitchState2' = prevSwitchState2
                      /\ EventCount(wire, switchPin2) <= 1
     /\ pc = "L57" => /\ wire' = wire
                      /\ prevSwitchState3' = prevSwitchState3
                      /\ EventCount(wire, switchPin3) <= 1]_vars

\* C7 witness: the input of switch 2 has changed twice during the delay
\* that followed its event line.
C7_Witness ==
  /\ pc = "L48"
  /\ blankFlips >= 2
  /\ EventCount(wire, switchPin2) = 1

\* C8: every line written is a frame line or one of the two literals; a
\* rising edge of slot 2, which is read from pin 7, writes "WORKS 2" and a
\* rising edge of slot 3, read from pin 6, writes "WORKS 1".
C8_EventLiterals ==
  [][/\ wire' # wire =>
          \A i \in 1 .. Len(wire') :
            \/ IsEventLine(wire'[i], switchPin2)
            \/ IsEventLine(wire'[i], switchPin3)
            \/ IsFrameLine(wire'[i])
     /\ (pc = "L40" /\ pc' # pc) => switchState2' = pin[7]
     /\ (pc = "L41" /\ pc' # pc) => switchState3' = pin[6]
     /\ (pc = "L43" /\ pc' # pc /\ switchState2 = "HIGH"
           /\ prevSwitchState2 = "LOW")
          => /\ Len(wire') = Len(wire) + 1
             /\ StripEOL(wire'[Len(wire')]) = Literal2
     /\ (pc = "L52" /\ pc' # pc /\ switchState3 = "HIGH"
           /\ prevSwitchState3 = "LOW")
          => /\ Len(wire') = Len(wire) + 1
             /\ StripEOL(wire'[Len(wire')]) = Literal1]_vars

\* C8 witness: one iteration has written its frame, then "WORKS 2", then
\* "WORKS 1".
C8_Witness ==
  /\ pc = "L57"
  /\ Len(wire) = 3
  /\ IsFrameLine(wire[1])
  /\ IsEventLine(wire[2], switchPin2)
  /\ IsEventLine(wire[3], switchPin3)

PinOrder == <<"A1", "A2", "A3", "A4", "A5">>

\* C9: the frame an iteration has just sent has NUM_SLIDERS fields and
\* field i is the value pin A(i+1) presented to this iteration's sampling.
C9_FrameIsSnapshot ==
  (pc = "L39" /\ wait = SendDelay) =>
    /\ Len(wire) >= 1
    /\ LET f == Fields(wire[1]) IN
         /\ Len(f) = NUM_SLIDERS
         /\ \A i \in Channels :
              /\ IsNumeral(f[i + 1])
              /\ NumeralValue(f[i + 1]) = analogLevel[PinOrder[i + 1]]

\* C9 witness: a frame has been sent in an iteration whose sampling
\* overwrote different values stored by the iteration before.
C9_Witness ==
  /\ pc = "L39"
  /\ sampleChange = "changed"
  /\ Len(wire) = 1

\* C10 (amended): when no debounce delay was entered since the last frame
\* line, the time between it and the next one is 140 units, the sum of the
\* three fixed delays.
C10_FrameGap140 ==
  (pc = "L38" /\ sinceFrame # NoFrame /\ stalls = 0) =>
    sinceFrame = SettleDelay + SendDelay + LoopDelay

\* C10 as stated: that time is 120 units.
C10_FrameGap120 ==
  (pc = "L38" /\ sinceFrame # NoFrame /\ stalls = 0) => sinceFrame = 120

\* C10 witness: a frame is about to follow another with no stall between.
C10_Witness ==
  /\ pc = "L38"
  /\ sinceFrame # NoFrame
  /\ stalls = 0


\* The statement that handles the level read from pin p, and the delay
\* statement inside its if.
CheckLine(p) == IF p = switchPin2 THEN "L43" ELSE "L52"
BlankLine(p) == IF p = switchPin2 THEN "L48" ELSE "L57"
\* This step is the handling of the level read from pin p.
Handled(p) == pc = CheckLine(p) /\ pc' # pc

\* C11: the handling of a poll writes an event line exactly when the level
\* read differs from the stored state and is HIGH, and no other step writes
\* one; whenever the level differs the stored state becomes the level read
\* and a delay of 50 units starts, with or without an event line.
C11_PollDecision ==
  [][\A p \in SwitchPins :
       /\ EventWritten(p) <=>
            /\ Handled(p)
            /\ LevelRead(p) # StableState(p)
            /\ LevelRead(p) = "HIGH"
       /\ (Handled(p) /\ LevelRead(p) # StableState(p)) =>
            /\ StableState(p)' = LevelRead(p)
            /\ pc' = BlankLine(p)
            /\ wait' = 50]_vars

\* C11 witness: switch 2 was read LOW against a stored HIGH: the state was
\* stored and the 50-unit delay started, with no event line written.
C11_Witness ==
  /\ pc = "L48"
  /\ wait = 50
  /\ switchState2 = "LOW"
  /\ prevSwitchState2 = "LOW"
  /\ EventCount(wire, switchPin2) = 0
  /\ events[switchPin2] = 1

\* This step writes one more line, a frame line.
FrameWritten ==
  /\ Len(wire') = Len(wire) + 1
  /\ IsFrameLine(wire'[Len(wire')])
\* This step is a digitalRead of a switch pin.
SwitchRead == pc \in {"L40", "L41"} /\ pc' # pc
\* This step is the sampling of the channels.
Sampled == pc = "L36" /\ pc' # pc

\* C12: in every iteration the sampling comes first, with nothing of the
\* iteration written yet; the frame line is the iteration's first line and
\* follows that sampling by the settle delay; the switches are read only
\* once the iteration's frame is on the wire; and the event lines of the
\* iteration are exactly the lines written since that frame, so they lie
\* between it and the next frame line.
C12_SampleSendPoll ==
  [][/\ Sampled => wire' = <<>>
     /\ FrameWritten => /\ wire = <<>>
                        /\ sampleChange # "none"
                        /\ cycleTime = SettleDelay
     /\ SwitchRead => /\ Len(wire) >= 1
                      /\ IsFrameLine(wire[1])
     /\ (\E p \in SwitchPins : EventWritten(p)) =>
          /\ IsFrameLine(wire[1])
          /\ afterFrame' = Tail(wire')
          /\ \A i \in 2 .. Len(wire') :
               \E p \in SwitchPins : IsEventLine(wire'[i], p)]_vars

\* C12 witness: an iteration after the first has sent its frame and then
\* the event line of switch 2.
C12_Witness ==
  /\ pc = "L48"
  /\ sampleChange = "changed"
  /\ Len(wire) = 2
  /\ IsFrameLine(wire[1])
  /\ IsEventLine(wire[2], switchPin2)
  /\ afterFrame = <<wire[2]>>

\* The three delays every iteration runs: lines 37, 39 and 59.
FixedDelays == SettleDelay + SendDelay + LoopDelay
\* An iteration of loop() has just ended: control is back at line 36.
CycleEnded == pc = "L36" /\ sampleChange # "none"

\* C13: the delay time of an iteration never exceeds the fixed delays plus
\* two intervals of 50; a finished iteration took exactly that much if and
\* only if both switches changed state in it, and the fixed delays plus one
\* interval of 50 if one switch did.
C13_CycleDuration ==
  /\ cycleTime <= FixedDelays + 50 + 50
  /\ CycleEnded =>
       /\ cycleTime = FixedDelays + 50 + 50 <=> stalls = 2
       /\ stalls = 1 => cycleTime = FixedDelays + 50
       /\ stalls = 0 => cycleTime = FixedDelays

\* C13 witness: an iteration in which both switches changed has ended.
C13_Witness ==
  /\ CycleEnded
  /\ stalls = 2
  /\ cycleTime = 240

\* A second case of C13: an iteration in which only switch 3 changed.
C13_WitnessOne ==
  /\ CycleEnded
  /\ stalls = 1
  /\ prevSwitchState3 # InitLevel(switchPin3)
  /\ cycleTime = 190

\* The statement that follows the if of the switch on pin p.
AfterCheck(p) == IF p = switchPin2 THEN "L52" ELSE "L59"

\* C14: the handling of a poll that read the stored state does nothing: no
\* line is written, both stored states and the channel array keep their
\* values, and control passes to the statement after the if with no
\* debounce delay started and no time spent.
C14_EqualPollNoOp ==
  [][\A p \in SwitchPins :
       (Handled(p) /\ LevelRead(p) = StableState(p)) =>
         /\ wire' = wire
         /\ afterFrame' = afterFrame
         /\ events' = events
         /\ prevSwitchState2' = prevSwitchState2
         /\ prevSwitchState3' = prevSwitchState3
         /\ analogSliderValues' = analogSliderValues
         /\ pc' = AfterCheck(p)
         /\ wait' = DelayOf(AfterCheck(p))
         /\ stalls' = stalls
         /\ cycleTime' = cycleTime]_vars

\* C14 witness: an iteration after the first has handled both polls with
\* neither switch changed, the inputs having moved before: it holds its
\* frame line alone and is 120 units old, the two delays before the polls.
C14_Witness ==
  /\ pc = "L59"
  /\ wait = LoopDelay
  /\ sampleChange = "same"
  /\ stalls = 0
  /\ flips[switchPin2] + flips[switchPin3] >= 2
  /\ Len(wire) = 1
  /\ cycleTime = SettleDelay + SendDelay

\* The delay statements of loop().
DelayLines == {"L37", "L39", "L48", "L57", "L59"}

\* C15: while a delay is in progress no step samples a channel, reads a
\* switch or writes a line, whatever the inputs do: the channel array, the
\* levels read, the stored states and the wire keep their values and no
\* input level becomes a polled one; and when the debounced input has
\* changed twice or more within its delay, a level of it has begun and
\* ended without ever being read.
C15_WaitsAreBlind ==
  [][(pc \in DelayLines) =>
       /\ analogSliderValues' = analogSliderValues
       /\ analogLevel' = analogLevel
       /\ switchState2' = switchState2
       /\ switchState3' = switchState3
       /\ prevSwitchState2' = prevSwitchState2
       /\ prevSwitchState3' = prevSwitchState3
       /\ wire' = wire
       /\ afterFrame' = afterFrame
       /\ events' = events
       /\ \A p \in SwitchPins :
            /\ polled'[p] => polled[p]
            /\ (pc' = BlankLine(p) /\ blankFlips' >= 2) => missed'[p]]_vars

\* C15 witness: within the delay that followed a change of switch 3 its
\* input went away and came back to the stored level, unread.
C15_Witness ==
  /\ pc = "L57"
  /\ wait < DebounceDelay3
  /\ blankFlips = 2
  /\ missed[switchPin3]
  /\ ~polled[switchPin3]
  /\ pin[switchPin3] = prevSwitchState3

\* C16: the step that builds and writes the frame line leaves the channel
\* array and both stored switch states as they were; and when the sampling
\* before it left the array as the previous frame had encoded it, the line
\* written is, byte for byte, that previous frame's line.
C16_EncodeIsPure ==
  [][FrameWritten =>
       /\ analogSliderValues' = analogSliderValues
       /\ prevSwitchState2' = prevSwitchState2
       /\ prevSwitchState3' = prevSwitchState3
       /\ sampleChange = "same" =>
            /\ sentFrame # <<>>
            /\ wire'[Len(wire')] = sentFrame]_vars

\* C16 witness: a frame has just been sent for an array that the sampling
\* left unchanged, with values above 9 in it.
C16_Witness ==
  /\ pc = "L39"
  /\ wait = SendDelay
  /\ sampleChange = "same"
  /\ analogSliderValues[0] = 1023
  /\ analogSliderValues[4] = 10
  /\ wire = <<sentFrame>>

\* The processor always runs the next statement of loop(), and a delay in
\* progress always elapses; nothing is assumed of the inputs.
FlipLive(p) ==
  /\ flips[switchPin2] + flips[switchPin3] < LiveFlips
  /\ FlipPin(p)
FlipLive2 == FlipLive(switchPin2)
FlipLive3 == FlipLive(switchPin3)
NextLive == Program(AdcScenarios) \/ FlipLive2 \/ FlipLive3
SpecLive == Init /\ [][NextLive]_vars /\ WF_vars(Program(AdcScenarios))

\* A frame line has just been written.
FrameJustSent == pc = "L39" /\ wait = SendDelay /\ wire = <<sentFrame>>

\* C17: the loop never stops: whatever state has been reached and whatever
\* the inputs do, a frame line is written again later.
C17_FramesForever == []<>FrameJustSent

\* C17 witness: a frame line has been written after both inputs have
\* changed and two event lines have been written.
C17_Witness ==
  /\ FrameJustSent
  /\ flips[switchPin2] = 1
  /\ flips[switchPin3] = 1
  /\ cycleTime = SettleDelay
  /\ events[switchPin2] + events[switchPin3] >= 2

\* No iteration has handled the poll of pin p yet.
BeforeFirstCheck(p) ==
  \/ pc = "setup"
  \/ pc = "L36" /\ sampleChange = "none"
  \/ /\ sampleChange = "first"
     /\ pc \in {"L37", "L38", "L39", "L40", "L41", CheckLine(switchPin2)}
            \cup (IF p = switchPin3 THEN {"L48", "L52"} ELSE {})
\* The iteration's checks are done: the last delay runs or has just ended.
ChecksDone == pc = "L59" \/ CycleEnded

\* C18: once an iteration has done its checks, and until the next one
\* starts, each stored state is the level that iteration's digitalRead
\* returned for its switch; until the first check of a switch its stored
\* state is LOW.
C18_StoredIsLastRead ==
  \A p \in SwitchPins :
    /\ ChecksDone => StableState(p) = LevelRead(p)
    /\ BeforeFirstCheck(p) => StableState(p) = "LOW"

\* C18 witness: the input of switch 2 went from LOW to HIGH and that of
\* switch 3 from HIGH to LOW, and an iteration that read the new levels has
\* ended with them stored.
C18_Witness ==
  /\ CycleEnded
  /\ prevSwitchState2 = "HIGH"
  /\ prevSwitchState3 = "LOW"
  /\ InitLevel(switchPin2) = "LOW"
  /\ InitLevel(switchPin3) = "HIGH"
  /\ flips[switchPin2] = 1
  /\ flips[switchPin3] = 1
  /\ polled[switchPin2]
  /\ polled[switchPin3]

\* C19: the lines written since the last frame line are event lines, at
\* most two, at most one of each literal, and when there are two the first
\* is "WORKS 2" and the second "WORKS 1".
C19_EventsBetweenFrames ==
  /\ Len(afterFrame) <= 2
  /\ \A i \in 1 .. Len(afterFrame) :
       \E p \in SwitchPins : IsEventLine(afterFrame[i], p)
  /\ \A p \in SwitchPins : EventCount(afterFrame, p) <= 1
  /\ Len(afterFrame) = 2 =>
       /\ StripEOL(afterFrame[1]) = Literal2
       /\ StripEOL(afterFrame[2]) = Literal1

\* C19 witness: the next frame is about to be sent, in an iteration after
\* the second, and since the last one "WORKS 2" and then "WORKS 1" were
\* written.
C19_Witness ==
  /\ pc = "L38"
  /\ sampleChange = "changed"
  /\ flips[switchPin2] + flips[switchPin3] >= 2
  /\ Len(afterFrame) = 2
  /\ IsEventLine(afterFrame[1], switchPin2)
  /\ IsEventLine(afterFrame[2], switchPin3)

====
